---- MODULE Spec2Model ----
(***************************************************************************)
(* Model of the Zillow MCP server: the tool dispatcher of                  *)
(* src/src/server/server.ts (CallToolRequestSchema handler) and the        *)
(* calculation methods of ZillowApiClient in src/src/zillow-api.ts.        *)
(*                                                                         *)
(* Numbers.  Money amounts are whole currency units unless a name ends in  *)
(* 100 (hundredths).  Interest rates are carried in hundredths of a        *)
(* percent (6.5% is 650).  The IEEE doubles of the source are modelled by  *)
(* fixed-point numbers with eight decimal digits (SCALE); every product    *)
(* and quotient is computed exactly and floored once.  A division by zero  *)
(* yields the JavaScript outcome, NaN or Infinity.                         *)
(*                                                                         *)
(* Optional values.  A key of an arguments object that may be missing is a *)
(* sequence of length 0 (undefined) or 1 (the value).                      *)
(***************************************************************************)
EXTENDS Integers, Sequences, FiniteSets, TLC

VARIABLES
    zillowApi,           \* server.ts:48  TRUE iff a client was created at startup
    pc,                  \* position of the CallTool handler
    tool,                \* request.params.name
    args,                \* the parsed arguments
    locations,           \* server.ts:451 the candidates being consumed
    idx,                 \* index of the candidate of the current iteration
    propertyCount,       \* server.ts:457
    rentalCount,         \* server.ts:458
    areas,               \* server.ts:446
    featuredProperties,  \* server.ts:447
    searchResult,        \* server.ts:823 what searchProperties resolved to
    calls,               \* client methods invoked by the current request, in order
    response,            \* what the handler returned (or that it threw)
    calcFn,              \* the calculation method invoked (by the handler, or directly)
    calcIn,              \* its parameters
    calcOut,             \* its result
    parked,              \* the locals of another handler invocation suspended at an await
    heard,               \* what the awaits of the running invocation resumed with
    client,              \* zillow-api.ts:183 one lookup of the provider client
    sessions,            \* server.ts:949 the keys of the sessions map
    transport,           \* state of the SSE transport created for each session id
    post                 \* the last POST to /mcp/messages and how it was answered

dispatchVars == <<zillowApi, pc, tool, args, locations, idx, propertyCount,
                  rentalCount, areas, featuredProperties, searchResult, calls,
                  response>>
calcVars == <<calcFn, calcIn, calcOut>>
concVars == <<parked, heard>>
sessionVars == <<sessions, transport, post>>
auxVars == <<concVars, client, sessionVars>>
vars == <<dispatchVars, calcVars, auxVars>>

-----------------------------------------------------------------------------
(* JavaScript values                                                       *)

Undefined == << >>
Some(v) == <<v>>
IsPresent(x) == x # << >>
Opt(S) == {Undefined} \cup {Some(v) : v \in S}

\* a default that replaces every value
OrNumAlwaysDefault(x, d) == d

\* a || d for a number: undefined and 0 are falsy
OrNum(x, d) == IF x = << >> THEN d ELSE IF x[1] = 0 THEN d ELSE x[1]
\* a || d for a string: undefined and "" are falsy
OrStr(x, d) == IF x = << >> THEN d ELSE IF x[1] = "" THEN d ELSE x[1]

\* A number that may be NaN or Infinity: its class and, when finite, its value
Num(v) == [cls |-> "finite", v |-> v]
NaN == [cls |-> "NaN", v |-> 0]
Infinity == [cls |-> "Infinity", v |-> 0]
IsFinite(x) == x.cls = "finite"

\* num / den where den = 0 (IEEE): 0/0 is NaN, anything else is infinite
DivByZero(num) == IF num = 0 THEN NaN ELSE Infinity

-----------------------------------------------------------------------------------------------------------------------------------------------------
(* Fixed-point arithmetic: a real x is the integer floor(x * SCALE).  No   *)
(* intermediate value reaches 2^31.                                        *)

SCALE == 10000 * 10000

\* floor(a * b / SCALE) for 0 <= a, b < 10 * SCALE, by four-digit limbs
MulFix(a, b) ==
    LET a1 == a \div 10000
        a0 == a % 10000
        b1 == b \div 10000
        b0 == b % 10000
    IN  a1 * b1 + ((a1 * b0 + a0 * b1 + ((a0 * b0) \div 10000)) \div 10000)

\* TRUE iff a * b is a multiple of SCALE
MulFixExact(a, b) ==
    LET a1 == a \div 10000
        a0 == a % 10000
        b1 == b \div 10000
        b0 == b % 10000
    IN  /\ (a0 * b0) % 10000 = 0
        /\ (a1 * b0 + a0 * b1 + ((a0 * b0) \div 10000)) % 10000 = 0

\* floor(a * b / SCALE) for any sign of a
MulFixFloor(a, b) ==
    IF a >= 0 THEN MulFix(a, b)
    ELSE IF MulFixExact(0 - a, b) THEN 0 - MulFix(0 - a, b)
    ELSE 0 - MulFix(0 - a, b) - 1

\* <<floor(a * 10^k / c), the remainder>> by long division, for a >= 0, 0 < c < 2 * SCALE
RECURSIVE DivDigits(_, _, _)
DivDigits(a, c, k) ==
    IF k = 0 THEN <<a \div c, a % c>>
    ELSE LET h == DivDigits(a, c, k - 1)
         IN  <<h[1] * 10 + ((h[2] * 10) \div c), (h[2] * 10) % c>>

\* Math.round of h / 2: the nearest integer, halves upwards
RoundHalves(h) == (h + 1) \div 2

\* x^n for a fixed-point 0 <= x <= 1 and a natural n
RECURSIVE PowFix(_, _)
PowFix(x, n) ==
    IF n = 0 THEN SCALE
    ELSE LET h == PowFix(x, n \div 2)
             sq == MulFix(h, h)
         IN  IF n % 2 = 1 THEN MulFix(sq, x) ELSE sq

\* monthlyRate = interestRate / 100 / 12, the rate given in hundredths of a percent
MonthlyRate(interestRate) == (interestRate * 10000) \div 12

\* 1 / Math.pow(1 + monthlyRate, numPayments)
Discount(monthlyRate, numPayments) ==
    PowFix(DivDigits(SCALE, SCALE + monthlyRate, 8)[1], numPayments)

(***************************************************************************)
(* The source computes the two quotients                                   *)
(*     (r * p) / (p - 1)    and    (p - 1) / (r * p),   p = (1 + r)^n.     *)
(* Here they are r / (1 - 1/p) and (1 - 1/p) / r: the same real numbers,   *)
(* with 1/p in (0, 1] whatever the rate and the term.  Both denominators   *)
(* are 0 exactly when the rate is 0, as in the source.                     *)
(***************************************************************************)

\* (r * p) / (p - 1), fixed-point; the denominator is not 0
PaymentPerUnit(monthlyRate, numPayments) ==
    DivDigits(monthlyRate, SCALE - Discount(monthlyRate, numPayments), 8)[1]

\* (p - 1) / (r * p) in millionths; the denominator is not 0
LoanPerUnit(monthlyRate, numPayments) ==
    DivDigits(SCALE - Discount(monthlyRate, numPayments), monthlyRate, 6)[1]

-----------------------------------------------------------------------------
(* ZillowApiClient.calculateAffordability                                  *)

DefaultInterestRate == 650

\* maxMonthlyPayment = annualIncome / 12 * 0.43 - monthlyDebts, in units of 1/1200
MaxMonthlyPayment1200Wrong(annualIncome, monthlyDebts) ==
    43 * annualIncome + 1200 * monthlyDebts
MaxMonthlyPayment1200(annualIncome, monthlyDebts) ==
    43 * annualIncome - 1200 * monthlyDebts

\* pmi: charged when the down payment is below 20% of the home price;
\* maxLoanAmount12 is the loan in twelfths of a currency unit
PmiWrong(downPayment, maxHomePrice, maxLoanAmount12) ==
    IF downPayment * 10 < maxHomePrice
    THEN RoundHalves(maxLoanAmount12 \div 14400) ELSE 0
Pmi(downPayment, maxHomePrice, maxLoanAmount12) ==
    IF downPayment * 5 < maxHomePrice
    THEN RoundHalves(maxLoanAmount12 \div 14400) ELSE 0

calculateAffordability(params) ==
    LET annualIncome == params.annualIncome
        downPayment == params.downPayment
        creditScore == params.creditScore
        monthlyDebts == params.monthlyDebts
        interestRate == IF IsPresent(params.interestRate)
                        THEN params.interestRate[1] ELSE DefaultInterestRate
        maxMonthlyPayment1200 == MaxMonthlyPayment1200(annualIncome, monthlyDebts)
        monthlyRate == MonthlyRate(interestRate)
        numPayments == 30 * 12
        \* maxLoanAmount is maxMonthlyPayment * (0 / 0) = NaN at a zero rate
        loanFinite == monthlyRate # 0
        \* maxLoanAmount in twelfths:
        \* (maxMonthlyPayment1200 / 1200) * (LoanPerUnit / 10^6) * 12
        maxLoanAmount12 ==
            IF loanFinite
            THEN MulFixFloor(maxMonthlyPayment1200, LoanPerUnit(monthlyRate, numPayments))
            ELSE 0
        maxHomePrice == RoundHalves((maxLoanAmount12 \div 6) + 2 * downPayment)
        estimatedMonthlyPayment == RoundHalves(maxMonthlyPayment1200 \div 600)
        principalAndInterest ==
            IF loanFinite
            THEN RoundHalves(MulFixFloor(maxLoanAmount12,
                                         PaymentPerUnit(monthlyRate, numPayments)) \div 6)
            ELSE 0
        propertyTax == RoundHalves(maxHomePrice \div 500)
        insurance == RoundHalves(maxHomePrice \div 1500)
        \* downPayment < NaN is false
        pmi == IF loanFinite THEN Pmi(downPayment, maxHomePrice, maxLoanAmount12) ELSE 0
        L(v) == IF loanFinite THEN Num(v) ELSE NaN
    IN  [ maxHomePrice |-> L(maxHomePrice),
          monthlyPayment |-> estimatedMonthlyPayment,
          loanAmount |-> L(RoundHalves(maxLoanAmount12 \div 6)),
          downPayment |-> downPayment,
          interestRate |-> interestRate,
          creditScore |-> creditScore,
          \* toFixed(2): hundredths of a percent
          dtiRatio |-> IF annualIncome = 0
                       THEN DivByZero(estimatedMonthlyPayment + monthlyDebts)
                       ELSE Num(RoundHalves(((estimatedMonthlyPayment + monthlyDebts)
                                             * 240000) \div annualIncome)),
          breakdown |-> [ principalAndInterest |-> L(principalAndInterest),
                          propertyTax |-> L(propertyTax),
                          insurance |-> L(insurance),
                          pmi |-> pmi,
                          total |-> L(principalAndInterest + propertyTax + insurance + pmi) ],
          assumptions |-> [ loanTerm |-> 30, propertyTaxRate |-> 120,
                            insuranceRate |-> 40, maxDtiRatio |-> 43 ] ]

-----------------------------------------------------------------------------
(* ZillowApiClient.calculateMortgagePayment                                *)

\* the payment calculation reporting the rate itself as the APR
calculateMortgagePaymentFlatApr(params) ==
    LET loanAmount == params.homePrice - params.downPayment
        monthlyRate == MonthlyRate(params.interestRate)
        numPayments == params.loanTerm * 12
        monthlyPayment ==
            IF SCALE - Discount(monthlyRate, numPayments) = 0
            THEN DivByZero(loanAmount * monthlyRate)
            ELSE Num(RoundHalves(MulFixFloor(2 * loanAmount,
                                             PaymentPerUnit(monthlyRate, numPayments))))
        totalPayment == IF IsFinite(monthlyPayment)
                        THEN Num(monthlyPayment.v * numPayments) ELSE monthlyPayment
    IN  [ homePrice |-> params.homePrice,
          downPayment |-> params.downPayment,
          loanAmount |-> loanAmount,
          interestRate |-> params.interestRate,
          loanTerm |-> params.loanTerm,
          monthlyPayment |-> monthlyPayment,
          totalPayment |-> totalPayment,
          totalInterest |-> totalPayment,
          apr |-> params.interestRate ]

calculateMortgagePayment(params) ==
    LET homePrice == params.homePrice
        downPayment == params.downPayment
        interestRate == params.interestRate
        loanTerm == params.loanTerm
        loanAmount == homePrice - downPayment
        monthlyRate == MonthlyRate(interestRate)
        numPayments == loanTerm * 12
        monthlyPayment ==
            IF SCALE - Discount(monthlyRate, numPayments) = 0
            THEN DivByZero(loanAmount * monthlyRate)
            ELSE Num(RoundHalves(MulFixFloor(2 * loanAmount,
                                             PaymentPerUnit(monthlyRate, numPayments))))
        totalPayment == IF IsFinite(monthlyPayment)
                        THEN Num(monthlyPayment.v * numPayments) ELSE monthlyPayment
        totalInterest == IF IsFinite(totalPayment)
                         THEN Num(totalPayment.v - loanAmount) ELSE totalPayment
    IN  [ homePrice |-> homePrice,
          downPayment |-> downPayment,
          loanAmount |-> loanAmount,
          interestRate |-> interestRate,
          loanTerm |-> loanTerm,
          monthlyPayment |-> monthlyPayment,
          totalPayment |-> totalPayment,
          totalInterest |-> totalInterest,
          apr |-> interestRate + 20 ]

-----
(* The calculations applied directly to parameters drawn from small sets   *)

Incomes == {12000, 14000, 75000, 95000}
DownPayments == {0, 50, 50000, 65000, 150000}
CreditScores == {620, 740}
Debts == {0, 450, 500, 2000}
AffordabilityRates == Opt({700})

AffordabilityParams ==
    [ annualIncome : Incomes, downPayment : DownPayments, creditScore : CreditScores,
      monthlyDebts : Debts, interestRate : AffordabilityRates ]

HomePrices == {50, 1000, 200000, 400000}
MortgageDownPayments == {0, 800, 80000}
\* <<interestRate, loanTerm>>
RateTerms == {<<0, 30>>, <<0, 15>>, <<100, 30>>, <<590, 15>>, <<650, 15>>,
              <<650, 30>>, <<10000, 1>>, <<10000, 30>>}

MortgageParams ==
    { [ homePrice |-> hp, downPayment |-> dp, interestRate |-> rt[1], loanTerm |-> rt[2] ] :
        hp \in HomePrices, dp \in MortgageDownPayments, rt \in RateTerms }

NoResult == [kind |-> "none"]
Returned(v) == [kind |-> "value", value |-> v]

\* the locals of a handler invocation that has not started
BlankInvocation ==
    [ pc |-> "idle", tool |-> "", args |-> << >>, locations |-> << >>, idx |-> 0,
      propertyCount |-> 0, rentalCount |-> 0, areas |-> << >>,
      featuredProperties |-> << >>, searchResult |-> Undefined, calls |-> << >>,
      response |-> NoResult, heard |-> << >> ]

\* no lookup of the provider client is running
IdleClient ==
    [ pc |-> "idle", method |-> "", params |-> << >>, requests |-> << >>,
      status |-> 0, settled |-> NoResult ]

\* the session ids the SSE transports draw (each is drawn once)
SessionIds == {"s1", "s2"}

\* no POST has been handled
NoPost == [n |-> 0, sessionId |-> Undefined, status |-> 0, deliveredTo |-> Undefined]

\* one handler invocation at most, no client lookup on its own, no session
AuxIdle ==
    /\ parked = BlankInvocation
    /\ heard = << >>
    /\ client = IdleClient
    /\ sessions = {}
    /\ transport = [s \in SessionIds |-> "none"]
    /\ post = NoPost

DispatchIdle ==
    /\ zillowApi = FALSE
    /\ pc = "idle"
    /\ tool = ""
    /\ args = << >>
    /\ locations = << >>
    /\ idx = 0
    /\ propertyCount = 0
    /\ rentalCount = 0
    /\ areas = << >>
    /\ featuredProperties = << >>
    /\ searchResult = Undefined
    /\ calls = << >>
    /\ response = NoResult

CalcInit ==
    /\ DispatchIdle
    /\ AuxIdle
    /\ \/ calcFn = "calculateAffordability" /\ calcIn \in AffordabilityParams
       \/ calcFn = "calculateMortgagePayment" /\ calcIn \in MortgageParams
    /\ calcOut = NoResult

ApplyAffordability ==
    /\ calcFn = "calculateAffordability"
    /\ calcOut = NoResult
    /\ calcOut' = Returned(calculateAffordability(calcIn))
    /\ UNCHANGED <<dispatchVars, calcFn, calcIn>>
    /\ UNCHANGED auxVars

ApplyMortgagePayment ==
    /\ calcFn = "calculateMortgagePayment"
    /\ calcOut = NoResult
    /\ calcOut' = Returned(calculateMortgagePayment(calcIn))
    /\ UNCHANGED <<dispatchVars, calcFn, calcIn>>
    /\ UNCHANGED auxVars

CalcNext == ApplyAffordability \/ ApplyMortgagePayment

SpecCalc == CalcInit /\ [][CalcNext]_vars

-----------------------------------------------------------------------------
(* The tool dispatcher: the CallToolRequestSchema handler of server.ts.    *)
(* One request is handled at a time; an action is the handler's code from  *)
(* one await to the next.  The provider's answer to an outbound call is    *)
(* chosen when the awaiting action resumes.                                *)

AreaTool == "zillow_city_neighborhood_real_estate_information"
AffordabilityTool == "calculateHomeAffordability"
SearchTool == "zillow_property_search"

Locations == {"Austin, TX"}

\* widgetsById.get(toolName).templateUri
TemplateUri(toolName) ==
    CASE toolName = AreaTool -> "ui://widget/zillow-areas.html"
      [] toolName = AffordabilityTool -> "ui://widget/zillow-buyability.html"
      [] toolName = SearchTool -> "ui://widget/zillow-property-search.html"

\* widgetMeta(widget)
widgetMeta(toolName) == [outputTemplate |-> TemplateUri(toolName)]

\* a client method invoked by the handler: the provider lookups carry the
\* candidate (cand) and status_type they were issued for
Call(op, cand, statusType) ==
    [op |-> op, cand |-> cand, status_type |-> statusType, outcome |-> "pending"]

\* the log with the outcome of the pending (last) call set
Settle(log, outcome) == [log EXCEPT ![Len(log)].outcome = outcome]

\* a handler's return value
Result(content, structuredContent, toolName) ==
    [ kind |-> "result", isError |-> FALSE, content |-> content,
      structuredContent |-> Some(structuredContent), meta |-> Some(widgetMeta(toolName)) ]

\* an error return that keeps a payload
ErrorResultWithPayload(content) ==
    [ kind |-> "result", isError |-> TRUE, content |-> content,
      structuredContent |-> Some(content), meta |-> Undefined ]

\* the return value of a handler's catch block
ErrorResult(content) ==
    [ kind |-> "result", isError |-> TRUE, content |-> content,
      structuredContent |-> Undefined, meta |-> Undefined ]

\* the handler rejected: the parser threw before the try block
Thrown(what) == [kind |-> "thrown", error |-> what]

\* a slice that keeps the whole list
SliceAll(xs, n) == xs

\* xs.slice(0, n)
Slice(xs, n) == IF Len(xs) <= n THEN xs ELSE SubSeq(xs, 1, n)

\* no request is being handled
Idle == pc = "idle"

\* the locals of a request that has none of them
NoLocals ==
    /\ locations' = << >>
    /\ idx' = 0
    /\ propertyCount' = 0
    /\ rentalCount' = 0
    /\ areas' = << >>
    /\ featuredProperties' = << >>
    /\ searchResult' = Undefined

NoCalc ==
    /\ calcFn' = ""
    /\ calcIn' = << >>
    /\ calcOut' = NoResult

-----------------------------------------------------------------------------
(* zillow_property_search                                                  *)

MaxProps == 11
PageSize == 10

SearchArgs ==
    [ location : Opt(Locations), listingType : Opt({"for-sale", "for-rent"}),
      bedrooms : Opt({0, 4}), bathrooms : {Undefined}, propertyType : {Undefined},
      minPrice : {Undefined}, maxPrice : {Undefined},
      sqftMin : {Undefined}, sqftMax : {Undefined} ]

\* the provider's listing number i
Listing(i) == [zpid |-> i, address |-> i, price |-> 300000 + i, listingStatus |-> "FOR_SALE"]
Listings(n) == [i \in 1 .. n |-> Listing(i)]

\* what the provider may answer to a search: it fails (a network error, a
\* non-success status, a body that is no JSON: makeRequest throws), or it
\* answers a JSON object, with or without the expected keys
Failure == [ok |-> FALSE]
Answer(body) == [ok |-> TRUE, body |-> body]
SearchBodies ==
    { [ props |-> Some(Listings(n)), totalResultCount |-> Some(n + more),
        currentPage |-> Some(1), totalPages |-> Some(pages) ] :
        n \in 0 .. MaxProps, more \in {0, 30}, pages \in {0, 1, 4} }
    \cup { [ props |-> Undefined, totalResultCount |-> Undefined,
             currentPage |-> Undefined, totalPages |-> Undefined ] }
SearchAnswers == {Failure} \cup {Answer(b) : b \in SearchBodies}

\* propertySearchInputParser.parse succeeds
SearchArgsValid(a) == IsPresent(a.location)

\* the fallback response of zillow_property_search (no client)
PropertySearchFallbackNoFlag(a) ==
    LET mockProperties ==
            << [ id |-> "1", price |-> 425000, bedrooms |-> OrNum(a.bedrooms, 3),
                 listingType |-> OrStr(a.listingType, "for-sale") ],
               [ id |-> "2", price |-> 385000, bedrooms |-> OrNum(a.bedrooms, 3),
                 listingType |-> OrStr(a.listingType, "for-sale") ] >>
    IN  Result([text |-> "demo", count |-> Len(mockProperties)],
               [ location |-> a.location[1],
                 listingType |-> OrStr(a.listingType, "for-sale"),
                 properties |-> mockProperties,
                 totalResults |-> Len(mockProperties),
                 usingMockData |-> Undefined ],
               SearchTool)
PropertySearchFallback(a) ==
    LET mockProperties ==
            << [ id |-> "1", price |-> 425000, bedrooms |-> OrNum(a.bedrooms, 3),
                 listingType |-> OrStr(a.listingType, "for-sale") ],
               [ id |-> "2", price |-> 385000, bedrooms |-> OrNum(a.bedrooms, 3),
                 listingType |-> OrStr(a.listingType, "for-sale") ] >>
    IN  Result([text |-> "demo", count |-> Len(mockProperties)],
               [ location |-> a.location[1],
                 listingType |-> OrStr(a.listingType, "for-sale"),
                 properties |-> mockProperties,
                 totalResults |-> Len(mockProperties),
                 usingMockData |-> Some(TRUE) ],
               SearchTool)

\* the live response of zillow_property_search, from the provider's body
PropertySearchLive(a, found) ==
    LET shown == IF IsPresent(found.props)
                 THEN Slice(found.props[1], PageSize) ELSE << >>
        properties == [ i \in 1 .. Len(shown) |->
                          [ id |-> shown[i].zpid, address |-> shown[i].address,
                            price |-> shown[i].price,
                            listingType |-> OrStr(a.listingType, "for-sale"),
                            listingStatus |-> shown[i].listingStatus ] ]
    IN  Result([text |-> "found", count |-> Len(properties)],
               [ location |-> a.location[1],
                 listingType |-> OrStr(a.listingType, "for-sale"),
                 properties |-> properties,
                 totalResults |-> OrNum(found.totalResultCount, Len(properties)),
                 currentPage |-> OrNum(found.currentPage, 1),
                 totalPages |-> OrNum(found.totalPages, 1),
                 usingMockData |-> Undefined ],
               SearchTool)

\* case "zillow_property_search", up to the await of searchProperties
CallPropertySearch ==
    /\ Idle
    /\ \E a \in SearchArgs :
          /\ tool' = SearchTool
          /\ args' = a
          /\ IF ~SearchArgsValid(a)
             THEN /\ pc' = "done"
                  /\ calls' = << >>
                  /\ response' = Thrown("ZodError")
             ELSE IF zillowApi
             THEN /\ pc' = "awaitSearch"
                  /\ calls' = << Call("searchProperties", 0,
                                      IF a.listingType = Some("for-rent")
                                      THEN "ForRent" ELSE "ForSale") >>
                  /\ response' = NoResult
             ELSE /\ pc' = "done"
                  /\ calls' = << >>
                  /\ response' = PropertySearchFallback(a)
    /\ NoLocals
    /\ NoCalc
    /\ UNCHANGED zillowApi
    /\ UNCHANGED auxVars

\* the await of searchProperties resumes: the result, or the catch block
SearchAnswer(ans) ==
    /\ IF ans.ok
       THEN /\ calls' = Settle(calls, "ok")
            /\ searchResult' = Some(ans.body)
            /\ response' = PropertySearchLive(args, ans.body)
       ELSE /\ calls' = Settle(calls, "error")
            /\ searchResult' = Undefined
            /\ response' = ErrorResult([text |-> "Error searching properties"])
    /\ pc' = "done"
    /\ UNCHANGED <<zillowApi, tool, args, locations, idx, propertyCount, rentalCount,
                   areas, featuredProperties, calcVars>>

\* the await of searchProperties resumes with one of the provider's answers
SearchAnswered ==
    /\ pc = "awaitSearch"
    /\ \E ans \in SearchAnswers : SearchAnswer(ans)
    /\ UNCHANGED auxVars

-----------------------------------------------------------------------------
(* Location suggestions, as both handlers that look a location up read them *)

MaxCandidates == 6
AreaLimit == 5

\* a suggestion: its display name, and metaData.lat / metaData.lng when the
\* provider sent them
Candidate(i, located) ==
    [ display |-> i,
      lat |-> IF located THEN Some(30 + i) ELSE Undefined,
      lng |-> IF located THEN Some(0 - 97) ELSE Undefined ]

\* k suggestions, all located but number m (m = 0: all located)
Candidates(k, m) == [i \in 1 .. k |-> Candidate(i, i # m)]

\* answers to searchLocationSuggestions: a failure, a body without
\* resultGroups[0].results, or a body with a list of suggestions
LocationBodies ==
    { [results |-> Undefined] }
    \cup { [results |-> Some(Candidates(k, m))] : k \in 0 .. MaxCandidates, m \in 0 .. MaxCandidates }
LocationAnswers == {Failure} \cup {Answer(b) : b \in LocationBodies}

-----------------------------------------------------------------------------
(* zillow_city_neighborhood_real_estate_information                        *)

FeaturedLimit == 8
FeaturedPerArea == 2

AreaArgs ==
    [ location : Opt(Locations), propertyType : Opt({"for-sale", "for-rent", "both"}),
      filters : {Undefined} ]

\* areasInputParser.parse succeeds
AreaArgsValid(a) == IsPresent(a.location)

\* the condition guarding the for-sale coordinate search
WantsSaleAlways(a) == TRUE
WantsSale(a) ==
    \/ a.propertyType = Some("for-sale")
    \/ a.propertyType = Some("both")
    \/ ~IsPresent(a.propertyType)

\* the condition guarding the for-rent coordinate search
WantsRent(a) == a.propertyType = Some("for-rent") \/ a.propertyType = Some("both")

\* if (lat && lng)
HasCoords(location) == OrNum(location.lat, 0) # 0 /\ OrNum(location.lng, 0) # 0

\* the provider's for-sale listing number j around suggestion c
CoordListing(c, j) ==
    [zpid |-> 10 * c + j, address |-> 10 * c + j, price |-> 300000 + j, listingStatus |-> "FOR_SALE"]

\* answers to searchPropertiesByCoordinates for suggestion c
SaleAnswers(c) ==
    { Failure,
      Answer([props |-> Undefined, totalResultCount |-> Undefined]),
      Answer([props |-> Some(<< >>), totalResultCount |-> Some(0)]),
      Answer([ props |-> Some([j \in 1 .. 3 |-> CoordListing(c, j)]),
               totalResultCount |-> Some(7) ]) }
RentAnswers(c) ==
    { Failure,
      Answer([props |-> Undefined, totalResultCount |-> Undefined]),
      Answer([props |-> Some(<< >>), totalResultCount |-> Some(4)]) }

\* the entry pushed to areas for one suggestion
AreaEntry(location, saleCount, rentCount) ==
    [ name |-> location.display, propertyCount |-> saleCount, rentalCount |-> rentCount,
      avgPrice |-> 0, type |-> "neighborhood",
      latitude |-> location.lat, longitude |-> location.lng ]

\* the entry pushed to featuredProperties for one listing
FeaturedEntry(prop, location, saleCount) ==
    [ id |-> prop.zpid, address |-> prop.address, price |-> saleCount,
      subtitle |-> prop.listingStatus ]

\* saleResults.props.slice(0, 2).forEach(push while fewer than 8)
AddFeatured(featured, props, location, saleCount) ==
    LET room == FeaturedLimit - Len(featured)
        taken == Slice(Slice(props, FeaturedPerArea), room)
    IN  featured \o [j \in 1 .. Len(taken) |-> FeaturedEntry(taken[j], location, saleCount)]

\* areas.reduce((sum, area) => sum + (area.propertyCount || 0), 0)
RECURSIVE SumCounts(_)
SumCounts(ar) == IF ar = << >> THEN 0 ELSE ar[1].propertyCount + SumCounts(Tail(ar))

\* a live response of the area lookup that is flagged as demonstration data
AreaLiveFlagged(a, ar, featured) ==
    Result([text |-> "Found areas", areasFound |-> Len(ar), totalResults |-> SumCounts(ar)],
           [ location |-> a.location[1],
             propertyType |-> OrStr(a.propertyType, "both"),
             areas |-> ar,
             featuredProperties |-> featured,
             filters |-> a.filters,
             totalResults |-> SumCounts(ar),
             usingMockData |-> Some(TRUE) ],
           AreaTool)

\* a live response of the area lookup that treats an empty list as an error
AreaLiveErrorWhenEmpty(a, ar, featured) ==
    IF ar = << >>
    THEN ErrorResult([text |-> "No areas found"])
    ELSE Result([text |-> "Found areas", areasFound |-> Len(ar), totalResults |-> SumCounts(ar)],
                [ location |-> a.location[1],
                  propertyType |-> OrStr(a.propertyType, "both"),
                  areas |-> ar,
                  featuredProperties |-> featured,
                  filters |-> a.filters,
                  totalResults |-> SumCounts(ar),
                  usingMockData |-> Undefined ],
                AreaTool)

\* the live response of the area lookup
AreaLive(a, ar, featured) ==
    Result([text |-> "Found areas", areasFound |-> Len(ar), totalResults |-> SumCounts(ar)],
           [ location |-> a.location[1],
             propertyType |-> OrStr(a.propertyType, "both"),
             areas |-> ar,
             featuredProperties |-> featured,
             filters |-> a.filters,
             totalResults |-> SumCounts(ar),
             usingMockData |-> Undefined ],
           AreaTool)

\* the fallback response of the area lookup (no client)
AreaFallback(a) ==
    LET mockAreas ==
            << [ name |-> "Downtown", propertyCount |-> 45, rentalCount |-> 32,
                 avgPrice |-> 450000, type |-> "neighborhood",
                 latitude |-> Some(476062), longitude |-> Some(0 - 1223321) ],
               [ name |-> "Suburbs", propertyCount |-> 120, rentalCount |-> 85,
                 avgPrice |-> 350000, type |-> "neighborhood",
                 latitude |-> Some(476205), longitude |-> Some(0 - 1223209) ] >>
        mockFeaturedProperties ==
            << [id |-> "1", address |-> "Capitol Hill, WA", price |-> 45, subtitle |-> "Urban living"],
               [id |-> "2", address |-> "Queen Anne, WA", price |-> 32, subtitle |-> "Hilltop views"] >>
    IN  Result([text |-> "demo", areasFound |-> Len(mockAreas)],
               [ location |-> a.location[1],
                 propertyType |-> OrStr(a.propertyType, "both"),
                 areas |-> mockAreas,
                 featuredProperties |-> mockFeaturedProperties,
                 filters |-> a.filters,
                 usingMockData |-> Some(TRUE) ],
               AreaTool)

\* the for-loop from suggestion i on, up to its next await: suggestions
\* without coordinates are pushed with zero counts on the way
RECURSIVE NextStop(_, _, _, _)
NextStop(a, locs, i, ar) ==
    IF i > Len(locs)
    THEN [pc |-> "done", idx |-> i, areas |-> ar]
    ELSE IF HasCoords(locs[i]) /\ WantsSale(a)
    THEN [pc |-> "awaitSale", idx |-> i, areas |-> ar]
    ELSE IF HasCoords(locs[i]) /\ WantsRent(a)
    THEN [pc |-> "awaitRent", idx |-> i, areas |-> ar]
    ELSE NextStop(a, locs, i + 1, Append(ar, AreaEntry(locs[i], 0, 0)))

\* the handler runs on from suggestion i: either it issues the next
\* coordinate search, or the loop is over and it returns the live response
Resume(a, locs, i, ar, featured, log) ==
    LET stop == NextStop(a, locs, i, ar)
    IN  /\ idx' = stop.idx
        /\ areas' = stop.areas
        /\ featuredProperties' = featured
        /\ propertyCount' = 0
        /\ rentalCount' = 0
        /\ pc' = stop.pc
        /\ IF stop.pc = "done"
           THEN /\ calls' = log
                /\ response' = AreaLive(a, stop.areas, featured)
           ELSE /\ calls' = Append(log, Call("searchPropertiesByCoordinates", stop.idx,
                                              IF stop.pc = "awaitSale" THEN "ForSale" ELSE "ForRent"))
                /\ response' = NoResult

\* the area lookup with its arguments checked only after the location call
\* has been issued
CallAreaLookupParseLate ==
    /\ Idle
    /\ \E a \in AreaArgs :
          /\ tool' = AreaTool
          /\ args' = a
          /\ IF zillowApi
             THEN /\ pc' = IF AreaArgsValid(a) THEN "awaitLocations" ELSE "done"
                  /\ calls' = << Call("searchLocationSuggestions", 0, "") >>
                  /\ response' = IF AreaArgsValid(a) THEN NoResult ELSE Thrown("ZodError")
             ELSE /\ pc' = "done"
                  /\ calls' = << >>
                  /\ response' = IF AreaArgsValid(a) THEN AreaFallback(a) ELSE Thrown("ZodError")
    /\ NoLocals
    /\ NoCalc
    /\ UNCHANGED zillowApi
    /\ UNCHANGED auxVars

\* case "zillow_city_neighborhood_real_estate_information", up to the await
\* of searchLocationSuggestions
CallAreaLookup ==
    /\ Idle
    /\ \E a \in AreaArgs :
          /\ tool' = AreaTool
          /\ args' = a
          /\ IF ~AreaArgsValid(a)
             THEN /\ pc' = "done"
                  /\ calls' = << >>
                  /\ response' = Thrown("ZodError")
             ELSE IF zillowApi
             THEN /\ pc' = "awaitLocations"
                  /\ calls' = << Call("searchLocationSuggestions", 0, "") >>
                  /\ response' = NoResult
             ELSE /\ pc' = "done"
                  /\ calls' = << >>
                  /\ response' = AreaFallback(a)
    /\ NoLocals
    /\ NoCalc
    /\ UNCHANGED zillowApi
    /\ UNCHANGED auxVars

\* the await of searchLocationSuggestions resumes: its failure reaches the
\* outer catch block; otherwise the loop over the first five suggestions starts
LocationsAnswer(ans) ==
    /\ IF ~ans.ok
       THEN /\ pc' = "done"
            /\ calls' = Settle(calls, "error")
            /\ response' = ErrorResult([text |-> "Error fetching data"])
            /\ UNCHANGED <<locations, idx, propertyCount, rentalCount, areas,
                           featuredProperties>>
       ELSE LET locs == IF IsPresent(ans.body.results)
                        THEN Slice(ans.body.results[1], AreaLimit) ELSE << >>
            IN  /\ locations' = locs
                /\ Resume(args, locs, 1, << >>, << >>, Settle(calls, "ok"))
    /\ UNCHANGED <<zillowApi, tool, args, searchResult, calcVars>>

\* the await of searchLocationSuggestions resumes with one of the answers
LocationsAnswered ==
    /\ pc = "awaitLocations"
    /\ \E ans \in LocationAnswers : LocationsAnswer(ans)
    /\ UNCHANGED auxVars

\* the await of the for-sale coordinate search resumes; its failure is caught
\* by the inner catch block, which ends this suggestion's searches
SaleAnswer(ans) ==
    /\ IF ~ans.ok
       THEN Resume(args, locations, idx + 1,
                   Append(areas, AreaEntry(locations[idx], propertyCount, rentalCount)),
                   featuredProperties, Settle(calls, "error"))
       ELSE LET saleCount == OrNum(ans.body.totalResultCount, 0)
                featured == IF IsPresent(ans.body.props)
                               /\ Len(featuredProperties) < FeaturedLimit
                            THEN AddFeatured(featuredProperties, ans.body.props[1],
                                             locations[idx], saleCount)
                            ELSE featuredProperties
            IN  IF WantsRent(args)
                THEN /\ pc' = "awaitRent"
                     /\ propertyCount' = saleCount
                     /\ featuredProperties' = featured
                     /\ calls' = Append(Settle(calls, "ok"),
                                        Call("searchPropertiesByCoordinates", idx, "ForRent"))
                     /\ UNCHANGED <<idx, rentalCount, areas, response>>
                ELSE Resume(args, locations, idx + 1,
                            Append(areas, AreaEntry(locations[idx], saleCount, rentalCount)),
                            featured, Settle(calls, "ok"))
    /\ UNCHANGED <<zillowApi, tool, args, locations, searchResult, calcVars>>

\* the await of the for-sale coordinate search resumes with one of the answers
SaleAnswered ==
    /\ pc = "awaitSale"
    /\ \E ans \in SaleAnswers(idx) : SaleAnswer(ans)
    /\ UNCHANGED auxVars

\* the for-rent search whose failure drops the suggestion's area entry
RentAnsweredDropping ==
    /\ pc = "awaitRent"
    /\ \E ans \in RentAnswers(idx) :
          IF ans.ok
          THEN Resume(args, locations, idx + 1,
                      Append(areas, AreaEntry(locations[idx], propertyCount,
                                              OrNum(ans.body.totalResultCount, 0))),
                      featuredProperties, Settle(calls, "ok"))
          ELSE Resume(args, locations, idx + 1, areas, featuredProperties,
                      Settle(calls, "error"))
    /\ UNCHANGED <<zillowApi, tool, args, locations, searchResult, calcVars>>
    /\ UNCHANGED auxVars

\* the await of the for-rent coordinate search resumes
RentAnswer(ans) ==
    /\ LET rentCount == IF ans.ok THEN OrNum(ans.body.totalResultCount, 0)
                        ELSE rentalCount
       IN  Resume(args, locations, idx + 1,
                  Append(areas, AreaEntry(locations[idx], propertyCount, rentCount)),
                  featuredProperties, Settle(calls, IF ans.ok THEN "ok" ELSE "error"))
    /\ UNCHANGED <<zillowApi, tool, args, locations, searchResult, calcVars>>

\* the await of the for-rent coordinate search resumes with one of the answers
RentAnswered ==
    /\ pc = "awaitRent"
    /\ \E ans \in RentAnswers(idx) : RentAnswer(ans)
    /\ UNCHANGED auxVars

-----------------------------------------------------------------------------
(* calculateHomeAffordability                                              *)

AffordabilityArgs ==
    [ annualIncome : Opt({0, 95000}), downPayment : Opt({0, 65000}),
      creditScore : Opt({0, 740}), monthlyDebts : Opt({0, 450}),
      location : Opt({"", "Austin, TX"}) ]

\* parameters whose interest rate follows the credit score
AffordabilityCallParamsScored(a) ==
    [ annualIncome |-> OrNum(a.annualIncome, 75000),
      downPayment |-> OrNum(a.downPayment, 50000),
      creditScore |-> OrNum(a.creditScore, 720),
      monthlyDebts |-> OrNum(a.monthlyDebts, 500),
      interestRate |-> IF OrNum(a.creditScore, 720) < 730 THEN Some(700) ELSE Undefined ]

\* the parameters the handler hands to zillowApi.calculateAffordability
AffordabilityCallParams(a) ==
    [ annualIncome |-> OrNum(a.annualIncome, 75000),
      downPayment |-> OrNum(a.downPayment, 50000),
      creditScore |-> OrNum(a.creditScore, 720),
      monthlyDebts |-> OrNum(a.monthlyDebts, 500),
      interestRate |-> Undefined ]

\* the live response: the calculation's result spread into the payload
AffordabilityLive(a, result, latitude, longitude) ==
    Result([ text |-> "you can afford", maxHomePrice |-> result.maxHomePrice,
             monthlyPayment |-> result.monthlyPayment, dtiRatio |-> result.dtiRatio ],
           [ result |-> result,
             location |-> OrStr(a.location, "United States"),
             latitude |-> latitude,
             longitude |-> longitude,
             usingMockData |-> Undefined ],
           AffordabilityTool)

\* the fallback calculation (no client)
AffordabilityFallback(a) ==
    LET income == OrNum(a.annualIncome, 75000)
        downPayment == OrNum(a.downPayment, 50000)
        maxHomePrice == income * 3 + downPayment
        monthlyPayment == RoundHalves(maxHomePrice \div 100)
    IN  Result([ text |-> "demo calculation", maxHomePrice |-> maxHomePrice,
                 monthlyPayment |-> monthlyPayment ],
               [ annualIncome |-> income,
                 downPayment |-> downPayment,
                 creditScore |-> OrNum(a.creditScore, 720),
                 monthlyDebts |-> OrNum(a.monthlyDebts, 500),
                 location |-> OrStr(a.location, "United States"),
                 latitude |-> Some(476062),
                 longitude |-> Some(0 - 1223321),
                 maxHomePrice |-> maxHomePrice,
                 monthlyPayment |-> monthlyPayment,
                 interestRate |-> DefaultInterestRate,
                 breakdown |->
                   [ principalAndInterest |-> RoundHalves((monthlyPayment * 7) \div 5),
                     propertyTax |-> RoundHalves((monthlyPayment * 3) \div 10),
                     insurance |-> RoundHalves(monthlyPayment \div 5),
                     pmi |-> RoundHalves(monthlyPayment \div 10) ],
                 usingMockData |-> Some(TRUE) ],
               AffordabilityTool)

\* case "calculateHomeAffordability", up to the await of the location lookup
CallAffordability ==
    /\ Idle
    /\ \E a \in AffordabilityArgs :
          /\ tool' = AffordabilityTool
          /\ args' = a
          /\ IF zillowApi
             THEN LET result == calculateAffordability(AffordabilityCallParams(a))
                  IN  /\ calcFn' = "calculateAffordability"
                      /\ calcIn' = AffordabilityCallParams(a)
                      /\ calcOut' = Returned(result)
                      /\ IF OrStr(a.location, "") # ""
                         THEN /\ pc' = "awaitAffordabilityLocation"
                              /\ calls' = << Call("searchLocationSuggestions", 0, "") >>
                              /\ response' = NoResult
                         ELSE /\ pc' = "done"
                              /\ calls' = << >>
                              /\ response' = AffordabilityLive(a, result, Undefined, Undefined)
             ELSE /\ NoCalc
                  /\ pc' = "done"
                  /\ calls' = << >>
                  /\ response' = AffordabilityFallback(a)
    /\ NoLocals
    /\ UNCHANGED zillowApi
    /\ UNCHANGED auxVars

\* the location lookup of the affordability handler with its failure not
\* caught locally: it reaches the handler's outer catch block
AffordabilityLocationAnsweredUncaught ==
    /\ pc = "awaitAffordabilityLocation"
    /\ \E ans \in LocationAnswers :
          LET found == /\ ans.ok
                       /\ IsPresent(ans.body.results)
                       /\ Len(ans.body.results[1]) > 0
              latitude == IF found THEN ans.body.results[1][1].lat ELSE Undefined
              longitude == IF found THEN ans.body.results[1][1].lng ELSE Undefined
          IN  /\ calls' = Settle(calls, IF ans.ok THEN "ok" ELSE "error")
              /\ response' = IF ans.ok
                             THEN AffordabilityLive(args, calcOut.value, latitude, longitude)
                             ELSE ErrorResult([text |-> "Error calculating affordability"])
    /\ pc' = "done"
    /\ UNCHANGED <<zillowApi, tool, args, locations, idx, propertyCount, rentalCount,
                   areas, featuredProperties, searchResult, calcVars>>
    /\ UNCHANGED auxVars

\* the await of searchLocationSuggestions resumes; its failure is caught and
\* leaves the coordinates undefined
AffordabilityLocationAnswered ==
    /\ pc = "awaitAffordabilityLocation"
    /\ \E ans \in LocationAnswers :
          LET found == /\ ans.ok
                       /\ IsPresent(ans.body.results)
                       /\ Len(ans.body.results[1]) > 0
              latitude == IF found THEN ans.body.results[1][1].lat ELSE Undefined
              longitude == IF found THEN ans.body.results[1][1].lng ELSE Undefined
          IN  /\ calls' = Settle(calls, IF ans.ok THEN "ok" ELSE "error")
              /\ response' = AffordabilityLive(args, calcOut.value, latitude, longitude)
    /\ pc' = "done"
    /\ UNCHANGED <<zillowApi, tool, args, locations, idx, propertyCount, rentalCount,
                   areas, featuredProperties, searchResult, calcVars>>
    /\ UNCHANGED auxVars

-----------------------------------------------------------------------------
(* interestRateMortgagePaymentSimulator                                    *)

MortgageTool == "interestRateMortgagePaymentSimulator"

MortgageArgs ==
    [ homePrice : Opt({0, 300000}), downPayment : Opt({0, 0 - 5000, 60000, 500000}),
      creditScore : Opt({0, 740}), location : Opt(Locations),
      loanTerm : Opt({0, 15, 20, 30}) ]

\* the estimated rates the client answers with (no request is made)
RateTable ==
    << [term |-> 30, rate |-> 650, apr |-> 670, loanType |-> "Conventional"],
       [term |-> 15, rate |-> 590, apr |-> 610, loanType |-> "Conventional"],
       [term |-> 30, rate |-> 630, apr |-> 650, loanType |-> "FHA"],
       [term |-> 15, rate |-> 570, apr |-> 590, loanType |-> "FHA"] >>

\* ZillowApiClient.getMortgageRates
getMortgageRates(location) ==
    [rates |-> RateTable, location |-> OrStr(location, "United States")]

\* rates.find(r => r.term === term)?.rate
FindRate(rates, term) ==
    LET hits == {i \in 1 .. Len(rates) : rates[i].term = term}
    IN  IF hits = {} THEN Undefined
        ELSE Some(rates[CHOOSE i \in hits : \A j \in hits : i <= j].rate)

\* currentRate
CurrentRate(a, rates) == OrNum(FindRate(rates, OrNum(a.loanTerm, 30)), DefaultInterestRate)

\* the parameters the handler hands to zillowApi.calculateMortgagePayment
MortgageCallParams(a, currentRate) ==
    [ homePrice |-> OrNum(a.homePrice, 400000),
      downPayment |-> OrNum(a.downPayment, 80000),
      interestRate |-> currentRate,
      loanTerm |-> OrNum(a.loanTerm, 30) ]

\* a return value of the mortgage handler: it carries no _meta
MortgageResult(content, structuredContent) ==
    [ kind |-> "result", isError |-> FALSE, content |-> content,
      structuredContent |-> Some(structuredContent), meta |-> Undefined ]

\* the live response: the calculation's result spread into the payload
MortgageLive(a, result, rates) ==
    MortgageResult([ text |-> "Current mortgage rate", interestRate |-> result.interestRate,
                     apr |-> result.apr, monthlyPayment |-> result.monthlyPayment ],
                   [ result |-> result,
                     location |-> OrStr(a.location, "United States"),
                     creditScore |-> OrNum(a.creditScore, 720),
                     availableRates |-> rates,
                     usingMockData |-> Undefined ])

\* the fallback calculation (no client): the payment formula at 6.5%
MortgageFallback(a) ==
    LET homePrice == OrNum(a.homePrice, 400000)
        downPayment == OrNum(a.downPayment, 80000)
        loanAmount == homePrice - downPayment
        interestRate == DefaultInterestRate
        monthlyPayment ==
            calculateMortgagePayment([ homePrice |-> homePrice, downPayment |-> downPayment,
                                       interestRate |-> interestRate,
                                       loanTerm |-> OrNum(a.loanTerm, 30) ]).monthlyPayment
    IN  MortgageResult([text |-> "demo rates", monthlyPayment |-> monthlyPayment],
                       [ homePrice |-> homePrice,
                         downPayment |-> downPayment,
                         loanAmount |-> loanAmount,
                         creditScore |-> OrNum(a.creditScore, 720),
                         location |-> OrStr(a.location, "United States"),
                         interestRate |-> interestRate,
                         apr |-> interestRate + 20,
                         loanTerm |-> OrNum(a.loanTerm, 30),
                         monthlyPayment |-> monthlyPayment,
                         usingMockData |-> Some(TRUE) ])

\* case "interestRateMortgagePaymentSimulator", up to the await of
\* getMortgageRates
CallMortgageRates ==
    /\ Idle
    /\ \E a \in MortgageArgs :
          /\ tool' = MortgageTool
          /\ args' = a
          /\ IF zillowApi
             THEN /\ pc' = "awaitRates"
                  /\ response' = NoResult
             ELSE /\ pc' = "done"
                  /\ response' = MortgageFallback(a)
    /\ calls' = << >>
    /\ NoLocals
    /\ NoCalc
    /\ UNCHANGED zillowApi
    /\ UNCHANGED auxVars

\* the await of getMortgageRates resumes: the rate is selected, the payment
\* calculated and the response returned
RatesAnswered ==
    /\ pc = "awaitRates"
    /\ LET rates == getMortgageRates(args.location)
           params == MortgageCallParams(args, CurrentRate(args, rates.rates))
           result == calculateMortgagePayment(params)
       IN  /\ calcFn' = "calculateMortgagePayment"
           /\ calcIn' = params
           /\ calcOut' = Returned(result)
           /\ response' = MortgageLive(args, result, rates.rates)
    /\ pc' = "done"
    /\ UNCHANGED <<zillowApi, tool, args, locations, idx, propertyCount, rentalCount,
                   areas, featuredProperties, searchResult, calls>>
    /\ UNCHANGED auxVars

-----------------------------------------------------------------------------
(* The handler's promise settles: the response (or the rejection) goes to   *)
(* the transport and nothing of the request stays in the server.            *)
Deliver ==
    /\ pc = "done"
    /\ pc' = "idle"
    /\ tool' = ""
    /\ args' = << >>
    /\ calls' = << >>
    /\ response' = NoResult
    /\ NoLocals
    /\ NoCalc
    /\ UNCHANGED zillowApi
    /\ UNCHANGED auxVars

-----------------------------------------------------------------------------
(* The server                                                              *)

\* startup: the client exists iff RAPIDAPI_KEY is set
Init ==
    /\ zillowApi \in BOOLEAN
    /\ pc = "idle"
    /\ tool = ""
    /\ args = << >>
    /\ locations = << >>
    /\ idx = 0
    /\ propertyCount = 0
    /\ rentalCount = 0
    /\ areas = << >>
    /\ featuredProperties = << >>
    /\ searchResult = Undefined
    /\ calls = << >>
    /\ response = NoResult
    /\ calcFn = ""
    /\ calcIn = << >>
    /\ calcOut = NoResult
    /\ AuxIdle

Next ==
    \/ CallPropertySearch
    \/ SearchAnswered
    \/ CallAreaLookup
    \/ LocationsAnswered
    \/ SaleAnswered
    \/ RentAnswered
    \/ CallAffordability
    \/ AffordabilityLocationAnswered
    \/ CallMortgageRates
    \/ RatesAnswered
    \/ Deliver

Spec == Init /\ [][Next]_vars

-----------------------------------------------------------------------------
(* The provider client: one lookup, from the method's entry to the promise  *)
(* it returns.  Every method builds its query and awaits makeRequest once.  *)

\* no other variable moves while the client is looked at on its own
Quiet == UNCHANGED <<dispatchVars, calcVars, concVars, sessionVars>>

\* the query of a lookup; a method leaves out what it does not send
Query(location, zpid, lat, lng, statusType, page) ==
    [ location |-> location, zpid |-> zpid, lat |-> lat, lng |-> lng,
      status_type |-> statusType, page |-> page ]

\* the lookups and the parameters they are invoked with
ClientCalls ==
    { [method |-> "searchProperties",
       params |-> Query(Some(l), Undefined, Undefined, Undefined, st, pg)] :
          l \in Locations, st \in Opt({"ForSale", "ForRent"}), pg \in Opt({0, 2}) }
    \cup
    { [method |-> "searchPropertiesByCoordinates",
       params |-> Query(Undefined, Undefined, Some(31), Some(0 - 97), st, pg)] :
          st \in Opt({"ForSale", "ForRent"}), pg \in Opt({0, 2}) }
    \cup
    { [method |-> "searchLocationSuggestions",
       params |-> Query(Some(l), Undefined, Undefined, Undefined, Undefined, Undefined)] :
          l \in Locations \cup {""} }
    \cup
    { [method |-> m,
       params |-> Query(Undefined, Some(z), Undefined, Undefined, Undefined, Undefined)] :
          m \in {"getPropertyDetails", "getZestimate"}, z \in {"2077", "2078"} }

\* the endpoint each method passes to makeRequest
Endpoint(method) ==
    CASE method = "searchProperties" -> "/propertyExtendedSearch"
      [] method = "searchPropertiesByCoordinates" -> "/propertyByCoordinates"
      [] method = "searchLocationSuggestions" -> "/locationSuggestions"
      [] method = "getPropertyDetails" -> "/property"
      [] method = "getZestimate" -> "/zestimate"

\* apiParams: the two searches default status_type and page
ApiParams(method, params) ==
    IF method \in {"searchProperties", "searchPropertiesByCoordinates"}
    THEN [params EXCEPT !.status_type = Some(OrStr(params.status_type, "ForSale")),
                        !.page = Some(OrNum(params.page, 1))]
    ELSE params

\* the GET that makeRequest hands to fetch
Request(method, params) ==
    [endpoint |-> Endpoint(method), query |-> ApiParams(method, params)]

\* what fetch settles with: no response at all (0), or a response's status
FetchStatuses == {0, 200, 429, 500}

\* a lookup is invoked: the method builds apiParams, makeRequest builds the
\* url and calls fetch
ClientInvoke ==
    /\ client.pc = "idle"
    /\ \E c \in ClientCalls :
          client' = [ pc |-> "fetch", method |-> c.method, params |-> c.params,
                      requests |-> << Request(c.method, c.params) >>,
                      status |-> 0, settled |-> NoResult ]
    /\ Quiet

\* a fetch whose failure is answered by fetching once more
FetchSettlesRetrying ==
    /\ client.pc = "fetch"
    /\ \E st \in FetchStatuses :
          client' = IF st = 200
                    THEN [client EXCEPT !.pc = "json", !.status = st]
                    ELSE IF Len(client.requests) < 2
                    THEN [client EXCEPT !.requests = Append(@, @[1])]
                    ELSE [client EXCEPT !.pc = "rejected", !.status = st,
                                        !.settled = Thrown("TypeError")]
    /\ Quiet

\* the await of fetch resumes: it rejected (makeRequest and the method's
\* catch block pass the error on), or there is a response, ok or not
FetchSettles ==
    /\ client.pc = "fetch"
    /\ \E st \in FetchStatuses :
          client' = IF st = 0
                    THEN [client EXCEPT !.pc = "rejected", !.settled = Thrown("TypeError")]
                    ELSE IF st = 200
                    THEN [client EXCEPT !.pc = "json", !.status = st]
                    ELSE [client EXCEPT !.pc = "text", !.status = st]
    /\ Quiet

\* the await of response.text() resumes, with the text or with a failure of
\* the read; either way an error leaves makeRequest
TextRead ==
    /\ client.pc = "text"
    /\ \E readable \in BOOLEAN :
          client' = [client EXCEPT !.pc = "rejected",
                                   !.settled = Thrown(IF readable THEN "Zillow API error"
                                                      ELSE "TypeError")]
    /\ Quiet

\* response.json() settles: the method returns the parsed body, or the
\* body is no JSON and the method's catch block passes the error on
JsonRead ==
    /\ client.pc = "json"
    /\ \E parsed \in BOOLEAN :
          client' = IF parsed
                    THEN [client EXCEPT !.pc = "resolved",
                                        !.settled = Returned(client.requests[1].endpoint)]
                    ELSE [client EXCEPT !.pc = "rejected",
                                        !.settled = Thrown("SyntaxError")]
    /\ Quiet

\* the caller has taken the settled promise
ClientReturns ==
    /\ client.pc \in {"resolved", "rejected"}
    /\ client' = IdleClient
    /\ Quiet

ClientInit ==
    /\ DispatchIdle
    /\ calcFn = ""
    /\ calcIn = << >>
    /\ calcOut = NoResult
    /\ AuxIdle

ClientNext ==
    \/ ClientInvoke
    \/ FetchSettles
    \/ TextRead
    \/ JsonRead
    \/ ClientReturns

SpecClient == ClientInit /\ [][ClientNext]_vars

-----------------------------------------------------------------------------
(* Sessions: the SSE endpoint registers a transport under its session id,   *)
(* the message endpoint looks the session up.  The handlers are taken as    *)
(* they are written: the onclose handler assigned before server.connect is  *)
(* the one that runs when the transport closes.                             *)

MaxPosts == 3

\* the sessionId query parameter of a POST: absent, empty, an id that was
\* never drawn, or one of the ids
PostedSessionIds == Opt(SessionIds \cup {"", "nope"})

\* what SSEServerTransport.handlePostMessage leaves in the response: the
\* message is accepted, the transport refuses it, or it throws and the
\* catch block answers
TransportStatuses == {202, 400, 500}

StillOthers == UNCHANGED <<dispatchVars, calcVars, concVars, client>>

\* handleSseRequest up to the await of server.connect
HandleSseRequest ==
    /\ \E s \in SessionIds :
          /\ transport[s] = "none"
          /\ sessions' = sessions \cup {s}
          /\ transport' = [transport EXCEPT ![s] = "connecting"]
    /\ UNCHANGED post
    /\ StillOthers

\* server.connect resolves: the stream is open
ConnectResolves ==
    /\ \E s \in SessionIds :
          /\ transport[s] = "connecting"
          /\ transport' = [transport EXCEPT ![s] = "open"]
    /\ UNCHANGED <<sessions, post>>
    /\ StillOthers

\* server.connect rejects: the catch block
ConnectRejects ==
    /\ \E s \in SessionIds :
          /\ transport[s] = "connecting"
          /\ transport' = [transport EXCEPT ![s] = "failed"]
          /\ sessions' = sessions \ {s}
    /\ UNCHANGED post
    /\ StillOthers

\* a transport that closes without its session being removed
TransportClosesKeepingSession ==
    /\ \E s \in SessionIds :
          /\ transport[s] = "open"
          /\ transport' = [transport EXCEPT ![s] = "closed"]
    /\ UNCHANGED <<sessions, post>>
    /\ StillOthers

\* the transport closes: transport.onclose
TransportCloses ==
    /\ \E s \in SessionIds :
          /\ transport[s] = "open"
          /\ transport' = [transport EXCEPT ![s] = "closed"]
          /\ sessions' = sessions \ {s}
    /\ UNCHANGED post
    /\ StillOthers

\* handlePostMessage
HandlePostMessage ==
    /\ post.n < MaxPosts
    /\ \E sid \in PostedSessionIds :
          IF OrStr(sid, "") = ""
          THEN post' = [ n |-> post.n + 1, sessionId |-> sid, status |-> 400,
                         deliveredTo |-> Undefined ]
          ELSE IF sid[1] \notin sessions
          THEN post' = [ n |-> post.n + 1, sessionId |-> sid, status |-> 404,
                         deliveredTo |-> Undefined ]
          ELSE \E st \in TransportStatuses :
                  post' = [ n |-> post.n + 1, sessionId |-> sid, status |-> st,
                            deliveredTo |-> sid ]
    /\ UNCHANGED <<sessions, transport>>
    /\ StillOthers

SessionsNext ==
    \/ HandleSseRequest
    \/ ConnectResolves
    \/ ConnectRejects
    \/ TransportCloses
    \/ HandlePostMessage

SpecSessions == ClientInit /\ [][SessionsNext]_vars

-----------------------------------------------------------------------------
(* Two tool invocations in flight.  JavaScript runs one continuation at a   *)
(* time: a handler runs from one await to the next, and while it is         *)
(* suspended another invocation's handler may run.  The locals of a handler *)
(* live in its own closure; zillowApi is the one binding the handlers       *)
(* share, and none of them assigns it.                                      *)

\* the locals of the running invocation
Running ==
    [ pc |-> pc, tool |-> tool, args |-> args, locations |-> locations, idx |-> idx,
      propertyCount |-> propertyCount, rentalCount |-> rentalCount, areas |-> areas,
      featuredProperties |-> featuredProperties, searchResult |-> searchResult,
      calls |-> calls, response |-> response, heard |-> heard ]

\* a switch that leaves the lists being gathered where they are, as if they
\* were bindings of the module
SwitchSharingLists ==
    /\ parked' = Running
    /\ pc' = parked.pc
    /\ tool' = parked.tool
    /\ args' = parked.args
    /\ locations' = parked.locations
    /\ idx' = parked.idx
    /\ propertyCount' = parked.propertyCount
    /\ rentalCount' = parked.rentalCount
    /\ searchResult' = parked.searchResult
    /\ calls' = parked.calls
    /\ response' = parked.response
    /\ heard' = parked.heard
    /\ UNCHANGED <<areas, featuredProperties>>
    /\ UNCHANGED <<zillowApi, calcVars, client, sessionVars>>

\* the running invocation is suspended at its await (or has returned, or
\* has not started) and the other invocation's continuation runs
Switch ==
    /\ parked' = Running
    /\ pc' = parked.pc
    /\ tool' = parked.tool
    /\ args' = parked.args
    /\ locations' = parked.locations
    /\ idx' = parked.idx
    /\ propertyCount' = parked.propertyCount
    /\ rentalCount' = parked.rentalCount
    /\ areas' = parked.areas
    /\ featuredProperties' = parked.featuredProperties
    /\ searchResult' = parked.searchResult
    /\ calls' = parked.calls
    /\ response' = parked.response
    /\ heard' = parked.heard
    /\ UNCHANGED <<zillowApi, calcVars, client, sessionVars>>

\* the running handler resumes and the answer is noted; nothing else moves
Hears(ans) ==
    /\ heard' = Append(heard, ans)
    /\ UNCHANGED <<parked, client, sessionVars>>

\* the answers the provider gives while two invocations are in flight: up
\* to two suggestions, the second of them with or without coordinates
ConcCandidateCounts == {0, 1, 2}
ConcLocationAnswers ==
    {Failure, Answer([results |-> Undefined])}
    \cup { Answer([results |-> Some(Candidates(k, m))]) :
              k \in ConcCandidateCounts, m \in {0, 2} }
ConcSearchAnswers ==
    {Failure}
    \cup { Answer(b) : b \in { c \in SearchBodies :
                                  /\ IsPresent(c.props) => Len(c.props[1]) <= 1
                                  /\ c.totalPages \in {Undefined, Some(1)} } }

ConcCallPropertySearch ==
    /\ CallPropertySearch
    /\ args'.bedrooms = Undefined

ConcSearchAnswered ==
    /\ pc = "awaitSearch"
    /\ \E ans \in ConcSearchAnswers : SearchAnswer(ans) /\ Hears(ans)

ConcLocationsAnswered ==
    /\ pc = "awaitLocations"
    /\ \E ans \in ConcLocationAnswers : LocationsAnswer(ans) /\ Hears(ans)

ConcSaleAnswered ==
    /\ pc = "awaitSale"
    /\ \E ans \in SaleAnswers(idx) : SaleAnswer(ans) /\ Hears(ans)

ConcRentAnswered ==
    /\ pc = "awaitRent"
    /\ \E ans \in RentAnswers(idx) : RentAnswer(ans) /\ Hears(ans)

ConcurrentNext ==
    \/ ConcCallPropertySearch
    \/ ConcSearchAnswered
    \/ CallAreaLookup
    \/ ConcLocationsAnswered
    \/ ConcSaleAnswered
    \/ ConcRentAnswered
    \/ Switch

SpecConcurrent == Init /\ [][ConcurrentNext]_vars

\* the property search run on its own with what its await resumed with
AloneSearch(a, h) ==
    IF ~SearchArgsValid(a) THEN Thrown("ZodError")
    ELSE IF ~zillowApi THEN PropertySearchFallback(a)
    ELSE IF h[1].ok THEN PropertySearchLive(a, h[1].body)
    ELSE ErrorResult([text |-> "Error searching properties"])

\* the loop of the area lookup from suggestion i on, run on its own: h[k] is
\* what the next coordinate search resumes with
RECURSIVE AloneAreaLoop(_, _, _, _, _, _, _)
AloneAreaLoop(a, locs, i, ar, featured, h, k) ==
    IF i > Len(locs) THEN AreaLive(a, ar, featured)
    ELSE IF ~HasCoords(locs[i]) \/ (~WantsSale(a) /\ ~WantsRent(a))
    THEN AloneAreaLoop(a, locs, i + 1, Append(ar, AreaEntry(locs[i], 0, 0)), featured, h, k)
    ELSE IF WantsSale(a)
    THEN IF ~h[k].ok
         THEN AloneAreaLoop(a, locs, i + 1, Append(ar, AreaEntry(locs[i], 0, 0)),
                            featured, h, k + 1)
         ELSE LET saleCount == OrNum(h[k].body.totalResultCount, 0)
                  more == IF IsPresent(h[k].body.props) /\ Len(featured) < FeaturedLimit
                          THEN AddFeatured(featured, h[k].body.props[1], locs[i], saleCount)
                          ELSE featured
              IN  IF WantsRent(a)
                  THEN LET rentCount == IF h[k + 1].ok
                                        THEN OrNum(h[k + 1].body.totalResultCount, 0)
                                        ELSE 0
                       IN  AloneAreaLoop(a, locs, i + 1,
                                         Append(ar, AreaEntry(locs[i], saleCount, rentCount)),
                                         more, h, k + 2)
                  ELSE AloneAreaLoop(a, locs, i + 1,
                                     Append(ar, AreaEntry(locs[i], saleCount, 0)),
                                     more, h, k + 1)
    ELSE LET rentCount == IF h[k].ok THEN OrNum(h[k].body.totalResultCount, 0) ELSE 0
         IN  AloneAreaLoop(a, locs, i + 1, Append(ar, AreaEntry(locs[i], 0, rentCount)),
                           featured, h, k + 1)

\* the area lookup run on its own with what its awaits resumed with
AloneArea(a, h) ==
    IF ~AreaArgsValid(a) THEN Thrown("ZodError")
    ELSE IF ~zillowApi THEN AreaFallback(a)
    ELSE IF ~h[1].ok THEN ErrorResult([text |-> "Error fetching data"])
    ELSE LET locs == IF IsPresent(h[1].body.results)
                     THEN Slice(h[1].body.results[1], AreaLimit) ELSE << >>
         IN  AloneAreaLoop(a, locs, 1, << >>, << >>, h, 2)

\* the response of an invocation run on its own
Alone(inv) ==
    IF inv.tool = AreaTool THEN AloneArea(inv.args, inv.heard)
    ELSE AloneSearch(inv.args, inv.heard)

-----------------------------------------------------------------------------
(* Properties of the dispatcher (checked under Spec)                       *)

\* the request in hand has been answered
Answered(toolName) == tool = toolName /\ pc = "done"

\* the outbound call the handler awaited last failed
LastCallFailed == calls # << >> /\ calls[Len(calls)].outcome = "error"

\* C1: without a provider client, a property search with valid arguments
\* returns (it does not throw), makes no provider call, and its payload
\* carries exactly two records and usingMockData = true.
C1_UnconfiguredSearchIsDemo ==
    (~zillowApi /\ tool = SearchTool /\ SearchArgsValid(args)) =>
        /\ calls = << >>
        /\ pc = "done"
        /\ response.kind = "result"
        /\ ~response.isError
        /\ Len(response.structuredContent[1].properties) = 2
        /\ response.structuredContent[1].usingMockData = Some(TRUE)

C1_Witness ==
    /\ ~zillowApi
    /\ Answered(SearchTool)
    /\ SearchArgsValid(args)
    /\ response.kind = "result"
    /\ Len(response.structuredContent[1].properties) = 2

\* C2: with a provider client whose search call fails, a property search
\* returns the two-record fallback with usingMockData = true, not an error.
C2_FailedSearchFallsBack ==
    (zillowApi /\ Answered(SearchTool) /\ LastCallFailed) =>
        /\ response.kind = "result"
        /\ ~response.isError
        /\ response = PropertySearchFallback(args)

\* the status_type values of the coordinate searches issued so far
Issued(statusType) ==
    \E i \in 1 .. Len(calls) :
        calls[i].op = "searchPropertiesByCoordinates" /\ calls[i].status_type = statusType

\* the location-resolution call of the request in hand failed
LocationCallFailed ==
    /\ calls # << >>
    /\ calls[1].op = "searchLocationSuggestions"
    /\ calls[1].outcome = "error"

\* C3: the area lookup never fails because the provider is unavailable:
\* without a client, or when the location-resolution call fails, it returns
\* the fixed demonstration dataset flagged usingMockData = true, not an error.
C3_AreaLookupNeverFails ==
    (Answered(AreaTool) /\ AreaArgsValid(args) /\ (~zillowApi \/ LocationCallFailed)) =>
        /\ response.kind = "result"
        /\ ~response.isError
        /\ response = AreaFallback(args)

\* C4: intent filtering is exclusive: a 'for-rent' lookup never issues a
\* for-sale coordinate search, a 'for-sale' lookup never issues a for-rent
\* one, and only 'both' issues the two.
C4_IntentExclusive ==
    tool = AreaTool =>
        /\ args.propertyType = Some("for-rent") => ~Issued("ForSale")
        /\ args.propertyType = Some("for-sale") => ~Issued("ForRent")
        /\ (Issued("ForSale") /\ Issued("ForRent")) => args.propertyType = Some("both")

C4_Witness ==
    /\ Answered(AreaTool)
    /\ args.propertyType = Some("for-rent")
    /\ Issued("ForRent")
    /\ Len(response.structuredContent[1].areas) = AreaLimit

\* C10: the affordability handler passes the caller's annualIncome,
\* downPayment, creditScore and monthlyDebts to the calculation whenever the
\* caller gave them, 0 included, and 75000 / 50000 / 720 / 500 exactly when
\* the caller gave none.
C10_CallerValuesPassedThrough ==
    (zillowApi /\ tool = AffordabilityTool) =>
        /\ calcFn = "calculateAffordability"
        /\ calcIn.annualIncome =
             (IF IsPresent(args.annualIncome) THEN args.annualIncome[1] ELSE 75000)
        /\ calcIn.downPayment =
             (IF IsPresent(args.downPayment) THEN args.downPayment[1] ELSE 50000)
        /\ calcIn.creditScore =
             (IF IsPresent(args.creditScore) THEN args.creditScore[1] ELSE 720)
        /\ calcIn.monthlyDebts =
             (IF IsPresent(args.monthlyDebts) THEN args.monthlyDebts[1] ELSE 500)

\* C12: an area lookup or property search whose arguments lack the required
\* location is rejected before any provider call is issued, with or without
\* a provider client.
C12_MissingLocationRejectedFirst ==
    (tool \in {AreaTool, SearchTool} /\ ~IsPresent(args.location)) =>
        /\ pc = "done"
        /\ response.kind = "thrown"
        /\ calls = << >>

C12_Witness ==
    /\ zillowApi
    /\ tool = AreaTool
    /\ ~IsPresent(args.location)
    /\ response.kind = "thrown"

\* the request in hand got a live (non-error) result
LiveResult(toolName) ==
    zillowApi /\ Answered(toolName) /\ response.kind = "result" /\ ~response.isError

\* C13: every live area-lookup response has at most 5 areas, one per consumed
\* candidate and in the order the provider returned the candidates, and at
\* most 8 featured properties, taken first-come from the areas in that order.
C13_AreasAndFeaturedInOrder ==
    LiveResult(AreaTool) =>
        LET ar == response.structuredContent[1].areas
            fp == response.structuredContent[1].featuredProperties
        IN  /\ Len(ar) <= AreaLimit
            /\ Len(ar) = Len(locations)
            /\ \A i \in 1 .. Len(ar) :
                  ar[i].name = locations[i].display /\ locations[i].display = i
            /\ Len(fp) <= FeaturedLimit
            /\ \A i \in 1 .. Len(fp) :
                  /\ fp[i].id \div 10 \in 1 .. Len(ar)
                  /\ fp[i].id % 10 \in 1 .. FeaturedPerArea
            /\ \A i, j \in 1 .. Len(fp) : i < j => fp[i].id < fp[j].id

C13_Witness ==
    /\ LiveResult(AreaTool)
    /\ Len(response.structuredContent[1].areas) = AreaLimit
    /\ Len(response.structuredContent[1].featuredProperties) = FeaturedLimit

\* the records the provider returned to the property search
ProviderProps == IF IsPresent(searchResult[1].props) THEN searchResult[1].props[1] ELSE << >>

\* the response lists the first min(10, n) of the provider's n records, in
\* the provider's order
ListsFirstPage ==
    LET properties == response.structuredContent[1].properties
    IN  /\ Len(properties) = (IF Len(ProviderProps) < PageSize THEN Len(ProviderProps) ELSE PageSize)
        /\ \A i \in 1 .. Len(properties) : properties[i].id = ProviderProps[i].zpid

\* C14 as stated: a live property-search response lists exactly the first
\* min(10, n) of the provider's n records in provider order, and its
\* totalResults, currentPage and totalPages equal the provider's
\* totalResultCount, currentPage and totalPages.
C14_PagingFromProviderAsStated ==
    LiveResult(SearchTool) =>
        /\ ListsFirstPage
        /\ Some(response.structuredContent[1].totalResults) = searchResult[1].totalResultCount
        /\ Some(response.structuredContent[1].currentPage) = searchResult[1].currentPage
        /\ Some(response.structuredContent[1].totalPages) = searchResult[1].totalPages

\* the provider sent this figure and it is not zero
Given(x) == IsPresent(x) /\ x # Some(0)

\* C14 amended: a live property-search response lists exactly the first
\* min(10, n) of the provider's n records in provider order; totalResults,
\* currentPage and totalPages equal the provider's figures whenever the
\* provider sent them and they are not zero; otherwise totalResults is the
\* number of listed records and currentPage and totalPages are 1.
C14_PagingFromProvider ==
    LiveResult(SearchTool) =>
        LET sc == response.structuredContent[1]
            sr == searchResult[1]
        IN  /\ ListsFirstPage
            /\ sc.totalResults = (IF Given(sr.totalResultCount) THEN sr.totalResultCount[1]
                                  ELSE Len(sc.properties))
            /\ sc.currentPage = (IF Given(sr.currentPage) THEN sr.currentPage[1] ELSE 1)
            /\ sc.totalPages = (IF Given(sr.totalPages) THEN sr.totalPages[1] ELSE 1)

C14_Witness ==
    /\ LiveResult(SearchTool)
    /\ Len(ProviderProps) = PageSize + 1
    /\ Len(response.structuredContent[1].properties) = PageSize
    /\ response.structuredContent[1].totalResults = PageSize + 31
    /\ response.structuredContent[1].totalPages = 4

\* the handler returned a result that is not error-flagged
Succeeded == pc = "done" /\ response.kind = "result" /\ ~response.isError

\* the interest rate the mortgage response was computed with
UsedRate ==
    IF zillowApi THEN response.structuredContent[1].result.interestRate
    ELSE response.structuredContent[1].interestRate

\* C15: for a mortgage lookup with loanTerm 15 or 30 (30 when absent), the
\* rate used for the payment is the rate of a rate-table entry whose term is
\* the requested term, with and without a provider client.
C15_RateMatchesRequestedTerm ==
    (tool = MortgageTool /\ Succeeded
        /\ (~IsPresent(args.loanTerm) \/ args.loanTerm \in {Some(15), Some(30)})) =>
        \E i \in 1 .. Len(RateTable) :
            /\ RateTable[i].term = (IF IsPresent(args.loanTerm) THEN args.loanTerm[1] ELSE 30)
            /\ RateTable[i].rate = UsedRate

\* the down payment and home price the mortgage handler works with
MortgageDownPayment == OrNum(args.downPayment, 80000)
MortgageHomePrice == OrNum(args.homePrice, 400000)

\* C16: a mortgage lookup whose down payment is negative or exceeds the home
\* price gives an error-flagged response without structured payload; no
\* payload carries a negative loanAmount or a negative monthlyPayment.
C16_NegativeLoanIsAnError ==
    (tool = MortgageTool /\ pc = "done") =>
        /\ (MortgageDownPayment < 0 \/ MortgageDownPayment > MortgageHomePrice) =>
              /\ response.kind = "result"
              /\ response.isError
              /\ response.structuredContent = Undefined
        /\ Succeeded =>
              LET sc == response.structuredContent[1]
                  payload == IF zillowApi THEN sc.result ELSE sc
              IN  /\ payload.loanAmount >= 0
                  /\ IsFinite(payload.monthlyPayment) => payload.monthlyPayment.v >= 0

\* C17: every successful response of each of the four tools, live or
\* fallback, carries a summary text, a structured payload, and presentation
\* metadata naming the display template.
C17_EnvelopeComplete ==
    (tool \in {AreaTool, AffordabilityTool, MortgageTool, SearchTool} /\ Succeeded) =>
        /\ response.content.text # ""
        /\ IsPresent(response.structuredContent)
        /\ IsPresent(response.meta)
        /\ response.meta[1].outputTemplate = TemplateUri(tool)

\* a provider call of the request in hand failed
SomeCallFailed == \E i \in 1 .. Len(calls) : calls[i].outcome = "error"

\* C18: whenever a provider call made while handling a tool call fails, the
\* handler returns a response instead of throwing, and every error-flagged
\* response carries a human-readable message and no structured payload.
C18_FailuresBecomeErrorResponses ==
    /\ (pc = "done" /\ SomeCallFailed) => response.kind = "result"
    /\ (response.kind = "result" /\ response.isError) =>
          /\ response.content.text # ""
          /\ response.structuredContent = Undefined

C18_Witness ==
    /\ pc = "done"
    /\ SomeCallFailed
    /\ response.kind = "result"
    /\ response.isError
    /\ response.structuredContent = Undefined

\* C19: no area-lookup or property-search response mixes live and demo
\* records: either usingMockData is true and the response is the fixed demo
\* dataset, built without a provider call, or usingMockData is not set and
\* every area / property comes from the provider's results.
C19_NoMixedResponse ==
    (tool \in {AreaTool, SearchTool} /\ Succeeded) =>
        LET sc == response.structuredContent[1]
        IN  IF sc.usingMockData = Some(TRUE)
            THEN /\ ~zillowApi
                 /\ calls = << >>
                 /\ response = (IF tool = AreaTool THEN AreaFallback(args)
                                ELSE PropertySearchFallback(args))
            ELSE /\ sc.usingMockData = Undefined
                 /\ zillowApi
                 /\ tool = SearchTool => ListsFirstPage
                 /\ tool = AreaTool =>
                       /\ \A i \in 1 .. Len(sc.areas) :
                             sc.areas[i].name = locations[i].display
                       /\ \A i \in 1 .. Len(sc.featuredProperties) :
                             \E c \in 1 .. Len(locations), j \in 1 .. 3 :
                                 sc.featuredProperties[i].id = CoordListing(c, j).zpid

C19_Witness ==
    /\ LiveResult(AreaTool)
    /\ response.structuredContent[1].usingMockData = Undefined
    /\ Len(response.structuredContent[1].areas) = 2
    /\ Len(response.structuredContent[1].featuredProperties) = 2

\* the payload the affordability handler builds for arguments a and the
\* coordinates the location lookup gave
AffordabilityPayload(a, latitude, longitude) ==
    IF zillowApi
    THEN AffordabilityLive(a, calculateAffordability(AffordabilityCallParams(a)),
                           latitude, longitude).structuredContent[1]
    ELSE AffordabilityFallback(a).structuredContent[1]

\* the payload the mortgage handler builds for arguments a
MortgagePayload(a) ==
    IF zillowApi
    THEN LET rates == getMortgageRates(a.location)
         IN  MortgageLive(a, calculateMortgagePayment(
                                 MortgageCallParams(a, CurrentRate(a, rates.rates))),
                          rates.rates).structuredContent[1]
    ELSE MortgageFallback(a).structuredContent[1]

\* a payload with the echoed credit score blanked
AffordabilityWithoutScore(sc) ==
    IF zillowApi THEN [sc EXCEPT !.result.creditScore = 0] ELSE [sc EXCEPT !.creditScore = 0]
MortgageWithoutScore(sc) == [sc EXCEPT !.creditScore = 0]

OtherCreditScores == Opt({0, 620, 740, 800})

C22_LocationFailureTolerated ==
    (tool = AffordabilityTool /\ pc = "done" /\ LocationCallFailed) =>
        /\ response.kind = "result"
        /\ ~response.isError
        /\ response.structuredContent[1].result
             = calculateAffordability(
                   AffordabilityCallParams([args EXCEPT !.location = Undefined]))
        /\ response.structuredContent[1].latitude = Undefined
        /\ response.structuredContent[1].longitude = Undefined
        /\ response.structuredContent[1].location = args.location[1]

C22_Witness ==
    /\ tool = AffordabilityTool
    /\ pc = "done"
    /\ LocationCallFailed
    /\ response.kind = "result"
    /\ IsFinite(response.structuredContent[1].result.maxHomePrice)

\* the location resolution of the area lookup in hand was answered
LocationsResolved ==
    /\ zillowApi
    /\ tool = AreaTool
    /\ calls # << >>
    /\ calls[1].outcome = "ok"

\* C26: when the provider's location resolution returns no candidates, a
\* live area lookup returns a non-error response with zero areas and zero
\* featured properties, and issues no coordinate search.
C26_NoCandidatesGivesEmptyResult ==
    (LocationsResolved /\ locations = << >>) =>
        /\ LiveResult(AreaTool)
        /\ response.structuredContent[1].areas = << >>
        /\ response.structuredContent[1].featuredProperties = << >>
        /\ Len(calls) = 1

C26_Witness ==
    /\ LocationsResolved
    /\ locations = << >>
    /\ pc = "done"
    /\ response.structuredContent[1].totalResults = 0

\* a coordinate search of this status_type was issued for suggestion i
IssuedFor(i, statusType) ==
    \E k \in 1 .. Len(calls) :
        /\ calls[k].op = "searchPropertiesByCoordinates"
        /\ calls[k].cand = i
        /\ calls[k].status_type = statusType

\* C27: the propertyType reported in a live area-lookup payload agrees with
\* the searches performed: for every candidate with coordinates a for-rent
\* search was issued iff the reported propertyType is 'for-rent' or 'both',
\* and a for-sale search iff it is 'for-sale' or 'both'.
C27_ReportedIntentMatchesSearches ==
    LiveResult(AreaTool) =>
        LET reported == response.structuredContent[1].propertyType
        IN  \A i \in 1 .. Len(locations) :
                HasCoords(locations[i]) =>
                    /\ IssuedFor(i, "ForRent") <=> reported \in {"for-rent", "both"}
                    /\ IssuedFor(i, "ForSale") <=> reported \in {"for-sale", "both"}

\* C29: every featured property of a live area-lookup response carries the
\* price of the provider listing it was drawn from.
C29_FeaturedPriceIsListingPrice ==
    LiveResult(AreaTool) =>
        LET fp == response.structuredContent[1].featuredProperties
        IN  \A i \in 1 .. Len(fp) :
                fp[i].price = CoordListing(fp[i].id \div 10, fp[i].id % 10).price

\* a coordinate search of the area lookup has just been answered by a failure
CoordSearchJustFailed ==
    /\ pc \in {"awaitSale", "awaitRent"}
    /\ calls'[Len(calls)].outcome = "error"

\* C30: in a live area lookup a failing coordinate search is isolated: the
\* request still succeeds, an area entry is appended for the failing
\* candidate and for every later one, the areas and featured properties
\* gathered before are unchanged, and the failing candidate's count for the
\* failed search is reported as 0.
C30_CoordinateFailureIsolated ==
    /\ [](  (LocationsResolved /\ pc = "done") =>
               /\ Succeeded
               /\ Len(response.structuredContent[1].areas) = Len(locations)
               /\ \A k \in 1 .. Len(calls) :
                     (calls[k].op = "searchPropertiesByCoordinates"
                         /\ calls[k].outcome = "error") =>
                        IF calls[k].status_type = "ForSale"
                        THEN response.structuredContent[1].areas[calls[k].cand].propertyCount = 0
                        ELSE response.structuredContent[1].areas[calls[k].cand].rentalCount = 0 )
    /\ [][ CoordSearchJustFailed =>
               /\ Len(areas') > Len(areas)
               /\ SubSeq(areas', 1, Len(areas)) = areas
               /\ areas'[Len(areas) + 1].name = locations[idx].display
               /\ featuredProperties' = featuredProperties ]_vars

C30_Witness ==
    /\ LocationsResolved
    /\ Succeeded
    /\ Len(response.structuredContent[1].areas) = AreaLimit
    /\ Len(response.structuredContent[1].featuredProperties) = 4
    /\ \E k \in 1 .. Len(calls) :
          calls[k].cand = 2 /\ calls[k].status_type = "ForSale" /\ calls[k].outcome = "error"
    /\ \E k \in 1 .. Len(calls) :
          calls[k].cand = 3 /\ calls[k].status_type = "ForRent" /\ calls[k].outcome = "error"

\* the steps of the two tools that search the provider: the property search
\* and the area lookup with its loop over the suggestions
NextSearches ==
    \/ CallPropertySearch
    \/ SearchAnswered
    \/ CallAreaLookup
    \/ LocationsAnswered
    \/ SaleAnswered
    \/ RentAnswered
    \/ Deliver

\* The event loop runs every step that depends on the process alone: a
\* finished handler's response is sent.  The resumption of an await on
\* makeRequest depends on the provider: fetch is called without a signal and
\* nothing in the client or the handlers arms a timer, so no fairness is
\* assumed for the answers.
SpecLive ==
    /\ Init
    /\ [][NextSearches]_vars
    /\ WF_vars(Deliver)

\* a handler is suspended on a call to the provider
AwaitingProvider ==
    pc \in {"awaitSearch", "awaitLocations", "awaitSale", "awaitRent", "awaitAffordabilityLocation"}

\* C24: every tool invocation eventually returns, also when the provider
\* never answers: an invocation that has started reaches its response.
C24_EveryInvocationReturns ==
    AwaitingProvider ~> (pc = "done")

\* the request of the lookup in hand failed: fetch rejected, the status was
\* not a success, or the body could not be read
RequestFailed ==
    /\ client.pc \in {"text", "resolved", "rejected"}
    /\ \/ client.status # 200
       \/ client.settled.kind = "thrown"

\* C23: each invocation of a provider-client lookup issues exactly one
\* outbound request; when that request fails the error is raised to the
\* caller and no second request is issued.
C23_OneRequestNoRetry ==
    /\ client.pc # "idle" =>
          /\ Len(client.requests) = 1
          /\ client.requests[1] = Request(client.method, client.params)
    /\ (RequestFailed /\ client.pc # "text") =>
          /\ client.pc = "rejected"
          /\ client.settled.kind = "thrown"
          /\ Len(client.requests) = 1

C23_Witness ==
    /\ client.method = "searchPropertiesByCoordinates"
    /\ client.pc = "rejected"
    /\ client.status = 500
    /\ client.settled = Thrown("Zillow API error")
    /\ client.requests = << [ endpoint |-> "/propertyByCoordinates",
                              query |-> Query(Undefined, Undefined, Some(31), Some(0 - 97),
                                              Some("ForSale"), Some(1)) ] >>

\* the ids whose SSE request was accepted and whose transport has neither
\* closed nor failed to connect
Registered == {s \in SessionIds : transport[s] \in {"connecting", "open"}}

\* a POST to /mcp/messages is being answered in this step
Posting == post'.n # post.n

\* C28: a message POSTed to /mcp/messages is delivered to a transport only
\* if its sessionId is registered at that time; a session is registered from
\* the acceptance of its SSE request until its transport closes or its
\* connect fails, after which a POST naming it is answered 404; a POST
\* without sessionId is answered 400; neither reaches a transport.
C28_PostsReachRegisteredSessionsOnly ==
    /\ [](sessions = Registered)
    /\ [][ Posting =>
             /\ IsPresent(post'.deliveredTo) =>
                   /\ post'.deliveredTo = post'.sessionId
                   /\ post'.deliveredTo[1] \in Registered
             /\ ~IsPresent(post'.sessionId) =>
                   /\ post'.status = 400
                   /\ post'.deliveredTo = Undefined
             /\ \A s \in SessionIds :
                   (post'.sessionId = Some(s) /\ transport[s] \in {"closed", "failed"}) =>
                       /\ post'.status = 404
                       /\ post'.deliveredTo = Undefined ]_vars

C28_Witness ==
    /\ transport["s1"] = "closed"
    /\ transport["s2"] = "open"
    /\ post.n = 2
    /\ post.sessionId = Some("s1")
    /\ post.status = 404
    /\ post.deliveredTo = Undefined

\* C25: concurrent tool invocations do not interfere: however the awaits of
\* two in-flight calls interleave, the response of each equals the response
\* it produces when run alone against the same provider answers.
C25_NoInterference ==
    /\ pc = "done" => response = Alone(Running)
    /\ parked.pc = "done" => parked.response = Alone(parked)

C25_Witness ==
    /\ zillowApi
    /\ pc = "done"
    /\ tool = AreaTool
    /\ Len(areas) = 2
    /\ Len(featuredProperties) = 4
    /\ Len(heard) = 5
    /\ parked.tool = AreaTool
    /\ parked.pc = "awaitRent"
    /\ parked.idx = 2
    /\ Len(parked.areas) = 1
    /\ Len(parked.featuredProperties) = 2

-----------------------------------------------------------------------------
(* Properties of the calculations (checked under SpecCalc)                 *)

AffordabilityDone == calcFn = "calculateAffordability" /\ calcOut.kind = "value"
MortgageDone == calcFn = "calculateMortgagePayment" /\ calcOut.kind = "value"

BreakdownSum(result) ==
    result.breakdown.principalAndInterest.v + result.breakdown.propertyTax.v
        + result.breakdown.insurance.v + result.breakdown.pmi

\* C5: the four breakdown components (principalAndInterest, propertyTax,
\* insurance, pmi) of every affordability result sum to within 1 currency unit
\* of the reported monthlyPayment.
C5_BreakdownSumsToMonthlyPayment ==
    AffordabilityDone =>
        /\ IsFinite(calcOut.value.breakdown.total)
        /\ BreakdownSum(calcOut.value) - calcOut.value.monthlyPayment \in -1 .. 1

\* C6: the mortgage payment calculation given an interest rate of zero raises
\* an InvalidRate error; it never returns a result whose monthly payment is NaN
\* or Infinity.
C6_ZeroRateRaisesInvalidRate ==
    /\ (calcFn = "calculateMortgagePayment" /\ calcOut.kind # "none"
            /\ calcIn.interestRate = 0)
           => (calcOut.kind = "error" /\ calcOut.error = "InvalidRate")
    /\ MortgageDone => IsFinite(calcOut.value.monthlyPayment)

\* maxHomePrice for the current parameters with one of them replaced
PriceWithDownPayment(dp) ==
    calculateAffordability([calcIn EXCEPT !.downPayment = dp]).maxHomePrice.v
PriceWithDebts(md) ==
    calculateAffordability([calcIn EXCEPT !.monthlyDebts = md]).maxHomePrice.v

\* C7: holding every other input fixed, a larger downPayment never yields a
\* smaller maxHomePrice, and a larger monthlyDebts never yields a larger
\* maxHomePrice.
C7_PriceMonotone ==
    AffordabilityDone =>
        /\ \A dp \in DownPayments :
              dp >= calcIn.downPayment
                  => PriceWithDownPayment(dp) >= calcOut.value.maxHomePrice.v
        /\ \A md \in Debts :
              md >= calcIn.monthlyDebts
                  => PriceWithDebts(md) <= calcOut.value.maxHomePrice.v

\* C7 witness: a result for which a larger down payment and a larger debt both
\* exist among the inputs and both move the price
C7_Witness ==
    /\ AffordabilityDone
    /\ \E dp \in DownPayments :
          dp > calcIn.downPayment
              /\ PriceWithDownPayment(dp) > calcOut.value.maxHomePrice.v
    /\ \E md \in Debts :
          md > calcIn.monthlyDebts
              /\ PriceWithDebts(md) < calcOut.value.maxHomePrice.v

\* C8 as stated: if downPayment is at least 20% of maxHomePrice then pmi is 0,
\* and if it is below 20% of maxHomePrice then pmi is strictly greater than 0.
C8_PmiBoundaryAsStated ==
    AffordabilityDone =>
        /\ calcIn.downPayment * 5 >= calcOut.value.maxHomePrice.v
              => calcOut.value.breakdown.pmi = 0
        /\ calcIn.downPayment * 5 < calcOut.value.maxHomePrice.v
              => calcOut.value.breakdown.pmi > 0

\* C8 amended: if downPayment is at least 20% of maxHomePrice then pmi is 0;
\* if it is below 20% then pmi is strictly greater than 0 provided the reported
\* loanAmount exceeds 1200 (pmi is the loan's 0.5% a year rounded to a whole
\* monthly amount, which is 0 for a smaller loan).
C8_PmiBoundary ==
    AffordabilityDone =>
        /\ calcIn.downPayment * 5 >= calcOut.value.maxHomePrice.v
              => calcOut.value.breakdown.pmi = 0
        /\ (calcIn.downPayment * 5 < calcOut.value.maxHomePrice.v
                /\ calcOut.value.loanAmount.v > 1200)
              => calcOut.value.breakdown.pmi > 0

\* C8 witness: a down payment between 10% and 20% of the price, pmi charged
C8_Witness ==
    /\ AffordabilityDone
    /\ calcIn.downPayment * 5 < calcOut.value.maxHomePrice.v
    /\ calcIn.downPayment * 10 >= calcOut.value.maxHomePrice.v
    /\ calcOut.value.loanAmount.v > 1200
    /\ calcOut.value.breakdown.pmi > 0

\* C9: for every loan with principal > 0, 0 < annual rate <= 100 and term > 0
\* the monthly payment returned is positive and finite, and
\* monthlyPayment * (term * 12) - principal is non-negative.
C9_PaymentPositive ==
    (MortgageDone /\ calcOut.value.loanAmount > 0
        /\ calcIn.interestRate > 0 /\ calcIn.interestRate <= 10000
        /\ calcIn.loanTerm > 0)
    => /\ IsFinite(calcOut.value.monthlyPayment)
       /\ calcOut.value.monthlyPayment.v > 0
       /\ calcOut.value.monthlyPayment.v * (calcIn.loanTerm * 12)
              - calcOut.value.loanAmount >= 0

\* C11: when monthlyIncome * 0.43 - monthlyDebts is zero or negative, the
\* affordability calculation returns, as a normal result, maxHomePrice equal
\* to the rounded downPayment and monthlyPayment equal to 0.
C11_NoCapacityGivesDownPaymentOnly ==
    (calcFn = "calculateAffordability" /\ calcOut.kind # "none"
        /\ MaxMonthlyPayment1200(calcIn.annualIncome, calcIn.monthlyDebts) <= 0) =>
        /\ calcOut.kind = "value"
        /\ calcOut.value.maxHomePrice = Num(calcIn.downPayment)
        /\ calcOut.value.monthlyPayment = 0

\* C21: every result of the mortgage payment calculation has loanAmount =
\* homePrice - downPayment, totalPayment = monthlyPayment * loanTerm * 12,
\* totalInterest = totalPayment - loanAmount and apr = interestRate + 0.2,
\* and echoes homePrice, downPayment, interestRate and loanTerm unchanged.
C21_MortgageResultEquations ==
    MortgageDone =>
        LET r == calcOut.value
        IN  /\ r.homePrice = calcIn.homePrice
            /\ r.downPayment = calcIn.downPayment
            /\ r.interestRate = calcIn.interestRate
            /\ r.loanTerm = calcIn.loanTerm
            /\ r.loanAmount = calcIn.homePrice - calcIn.downPayment
            /\ r.apr = calcIn.interestRate + 20
            /\ IF IsFinite(r.monthlyPayment)
               THEN /\ r.totalPayment = Num(r.monthlyPayment.v * calcIn.loanTerm * 12)
                    /\ r.totalInterest = Num(r.totalPayment.v - r.loanAmount)
               ELSE ~IsFinite(r.totalPayment) /\ ~IsFinite(r.totalInterest)

C21_Witness ==
    /\ MortgageDone
    /\ calcIn.interestRate = 590
    /\ IsFinite(calcOut.value.monthlyPayment)
    /\ calcOut.value.monthlyPayment.v > 0
    /\ calcOut.value.totalInterest.v > 0
    /\ calcOut.value.apr = 610

====
